---- MODULE Spec2Model ----
(***************************************************************************)
(* Model of the coin ledger of the reward system: the tRPC user router     *)
(* (packages/api/src/router/user.ts) over the Prisma User table, the       *)
(* Discord profile and signIn callback of packages/auth/src/auth-options.ts,*)
(* the bot's give-coins command, and the calls made against them.          *)
(*                                                                         *)
(* Every `await ctx.prisma...` of a handler is one atomic step of the      *)
(* store; the steps of different calls interleave freely.  Strings that    *)
(* the code inspects (parseInt, startsWith) are sequences of one-character *)
(* strings; Null is a value no such string equals.                         *)
(***************************************************************************)
EXTENDS Integers, Sequences, FiniteSets, TLC

VARIABLES users, calls

vars == <<users, calls>>

\* ------------------------------------------------------------------ bounds

\* Number of calls (requests) in one behaviour; each runs one procedure.
NumCalls == 2
\* z.number() accepts every number: the amounts tried are MinAmount..MaxAmount.
MaxAmount == 2
\* Balances of the rows that exist before the first call: 0..MaxSeedCoins.
MaxSeedCoins == 1

MinAmount == 0 - 1

Procs == 1..NumCalls
Amounts == MinAmount..MaxAmount

\* ----------------------------------------------------------------- strings

Null == <<"NULL">>

Digits == <<"0", "1", "2", "3", "4", "5", "6", "7", "8", "9">>

IsDigit(c) == \E i \in 1..10 : Digits[i] = c

DigitVal(c) == (CHOOSE i \in 1..10 : Digits[i] = c) - 1

startsWith(s, prefix) ==
  /\ Len(s) >= Len(prefix)
  /\ SubSeq(s, 1, Len(prefix)) = prefix

\* Number of leading characters of s that are blanks.
RECURSIVE LeadingBlanks(_)
LeadingBlanks(s) ==
  IF s # <<>> /\ Head(s) = " " THEN 1 + LeadingBlanks(Tail(s)) ELSE 0

\* Value of the longest prefix of s made of decimal digits, read after acc.
RECURSIVE DigitsValue(_, _)
DigitsValue(s, acc) ==
  IF s # <<>> /\ IsDigit(Head(s))
  THEN DigitsValue(Tail(s), 10 * acc + DigitVal(Head(s)))
  ELSE acc

NaN == [nan |-> TRUE, val |-> 0]

Num(n) == [nan |-> FALSE, val |-> n]

\* JavaScript parseInt(s) with no radix, on decimal input: leading blanks are
\* skipped, one sign is read, then the longest run of digits; no digit gives NaN.
parseInt(s) ==
  LET t == SubSeq(s, LeadingBlanks(s) + 1, Len(s))
      neg == t # <<>> /\ Head(t) = "-"
      signed == t # <<>> /\ Head(t) \in {"-", "+"}
      d == IF signed THEN Tail(t) ELSE t
  IN IF d = <<>> \/ ~IsDigit(Head(d))
     THEN NaN
     ELSE Num(IF neg THEN 0 - DigitsValue(d, 0) ELSE DigitsValue(d, 0))

\* Mutant of JsRem: the remainder is taken by one more than b.
JsRemByNext(a, b) == a % (b + 1)

\* JavaScript a % b for b > 0: the result takes the sign of the dividend.
JsRem(a, b) == IF a >= 0 THEN a % b ELSE 0 - ((0 - a) % b)

RECURSIVE NatToStr(_)
NatToStr(n) ==
  IF n < 10 THEN <<Digits[n + 1]>> ELSE NatToStr(n \div 10) \o <<Digits[(n % 10) + 1]>>

\* String(x) of a JavaScript number that is an integer or NaN.
NumToStr(x) ==
  IF x.nan THEN <<"N", "a", "N">>
  ELSE IF x.val < 0 THEN <<"-">> \o NatToStr(0 - x.val)
  ELSE NatToStr(x.val)

\* -------------------------------------------------------------- thumbnails

\* The Discord profile's image_url: the default avatar picked by the
\* discriminator when there is no avatar, else the account's own avatar,
\* a gif when the hash starts with "a_".
profileImageUrl(profile) ==
  IF profile.avatar = Null
  THEN LET p == parseInt(profile.discriminator)
           defaultAvatarNumber == IF p.nan THEN NaN ELSE Num(JsRem(p.val, 5))
       IN <<"https://cdn.discordapp.com/embed/avatars/">>
            \o NumToStr(defaultAvatarNumber) \o <<".png">>
  ELSE LET format == IF startsWith(profile.avatar, <<"a", "_">>) THEN "gif" ELSE "png"
       IN <<"https://cdn.discordapp.com/avatars/">> \o profile.id \o <<"/">>
            \o profile.avatar \o <<".", format>>

\* utils/functions.setThumbnailUrl, which the router calls on a Discord user.
setThumbnailUrl(user) == profileImageUrl(user)

\* -------------------------------------------------------------- User table

\* The columns by which the router resolves one row (findUnique, upsert): each
\* carries a unique index.
RouterUniqueFields == {"email", "discordId", "githubId"}

\* The column by which the sign-in callback resolves one row (findUnique,
\* update): it carries a unique index too.
SignInUniqueFields == {"discordUserName"}

UniqueFields == RouterUniqueFields \cup SignInUniqueFields

\* Index in table of the row whose column field holds value, 0 when none.
FindIn(table, field, value) ==
  IF \E i \in DOMAIN table : table[i][field] = value
  THEN CHOOSE i \in DOMAIN table : table[i][field] = value
  ELSE 0

\* prisma.user.findUnique({ where: { [field]: value } })
findUnique(field, value) == FindIn(users, field, value)

\* Mutant of UniqueConstraintViolation: the table has no unique index.
UniqueConstraintIgnored(data) == FALSE

\* Whether inserting data breaks a unique index (nulls do not collide).
UniqueConstraintViolation(data) ==
  \E i \in DOMAIN users : \E f \in UniqueFields :
    data[f] # Null /\ users[i][f] = data[f]

\* The row prisma.user.create stores for data: absent optional columns are
\* NULL, thumbnail and coins take their defaults, id is generated.
Row(id, data) ==
  [id                   |-> id,
   name                 |-> data.name,
   email                |-> data.email,
   discordId            |-> data.discordId,
   discordUserName      |-> data.discordUserName,
   discordDiscriminator |-> data.discordDiscriminator,
   githubId             |-> data.githubId,
   githubUserName       |-> data.githubUserName,
   thumbnail            |-> data.thumbnail,
   coins                |-> data.coins]

NewRow(data) == Row(Len(users) + 1, data)

NoColumns ==
  [name |-> Null, email |-> Null, discordId |-> Null, discordUserName |-> Null,
   discordDiscriminator |-> Null, githubId |-> Null, githubUserName |-> Null,
   thumbnail |-> <<>>, coins |-> 0]

\* The create data the router builds for a Discord user holding coins.
DiscordUserData(user, coins) ==
  [NoColumns EXCEPT !.name = user.username,
                    !.discordId = user.id,
                    !.discordUserName = user.username,
                    !.discordDiscriminator = user.discriminator,
                    !.thumbnail = setThumbnailUrl(user),
                    !.coins = coins]

\* Mutant of GithubUserData: the avatar URL is not stored.
GithubUserDataNoThumbnail(user, coins) ==
  [NoColumns EXCEPT !.name = user.name,
                    !.email = user.email,
                    !.githubId = user.id,
                    !.githubUserName = user.login,
                    !.coins = coins]

\* The create data sendCoinsByGithubId builds for a GitHub user.
GithubUserData(user, coins) ==
  [NoColumns EXCEPT !.name = user.name,
                    !.email = user.email,
                    !.githubId = user.id,
                    !.githubUserName = user.login,
                    !.thumbnail = user.avatarUrl,
                    !.coins = coins]

\* ------------------------------------------------------------------ inputs

Alice == [id |-> <<"42">>, username |-> <<"alice">>, avatar |-> Null,
          discriminator |-> <<"7">>]
Bob == [id |-> <<"43">>, username |-> <<"bob">>, avatar |-> <<"a", "_", "abc123">>,
        discriminator |-> <<"3">>]
\* Another Discord account whose username is also "alice".
Alice2 == [id |-> <<"44">>, username |-> <<"alice">>, avatar |-> <<"abc123">>,
           discriminator |-> <<"1", "2">>]

DiscordUsers == {Alice, Bob, Alice2}

\* Alice and Bob as they were when their rows were first stored: since then
\* Alice has dropped her avatar and taken another discriminator, Bob another
\* username too.
AliceBefore == [Alice EXCEPT !.avatar = <<"old">>, !.discriminator = <<"0", "0", "0", "9">>]
BobBefore == [Bob EXCEPT !.username = <<"bobby">>, !.avatar = Null,
                         !.discriminator = <<"1", "2", "3", "4">>]

\* The accounts that pay: one that may hold a row, one that never does at first.
Senders == {Alice, Alice2}

Octo == [id |-> <<"9001">>, login |-> <<"octo">>, name |-> <<"Octo">>,
         email |-> <<"octo@example.org">>, avatarUrl |-> <<"https://gh/octo.png">>]

\* Octo after a change of avatar.
OctoNow == [Octo EXCEPT !.avatarUrl = <<"https://gh/octo-2.png">>]

GithubUsers == {Octo, OctoNow}

\* z.string() accepts every string as the coins of sendCoinsByGithubId.
CoinStrings == {<<"1", "5">>, <<"-", "1">>, <<"a", "b", "c">>}

\* An input of create with every optional key absent: hasCoins tells whether
\* coins was given, thumbnail takes its default ''.
NoCreateInput ==
  [name |-> Null, email |-> Null, discordId |-> Null, discordUserName |-> Null,
   discordDiscriminator |-> Null, thumbnail |-> <<>>, hasCoins |-> FALSE, coins |-> 0,
   githubUsername |-> Null, githubUserId |-> Null]

CreateInputs ==
  {[NoCreateInput EXCEPT !.name = <<"alice">>, !.discordId = Alice.id,
                         !.discordUserName = <<"alice">>,
                         !.discordDiscriminator = <<"7">>],
   [NoCreateInput EXCEPT !.name = <<"Octo">>, !.email = Octo.email,
                         !.hasCoins = TRUE, !.coins = 1],
   [NoCreateInput EXCEPT !.name = <<"zero">>, !.hasCoins = TRUE],
   [NoCreateInput EXCEPT !.name = <<"Octo">>, !.githubUserId = Octo.id,
                         !.githubUsername = Octo.login]}

\* ------------------------------------------------------------------- calls

DbPcs == {"create.create", "send.upsert", "github.upsert",
          "pay.findUnique", "pay.create", "pay.update", "pay.upsert"}

\* Stands for "no row" where a row may stand: no row has id 0.
NoRow == Row(0, NoColumns)

NoResult == [kind |-> "none", code |-> "", message |-> "", data |-> NoRow]

\* return { status: Response.SUCCESS, data: { user | receiver } }
Success(row) == [kind |-> "success", code |-> "SUCCESS", message |-> "", data |-> row]

\* throw new TRPCError({ code, message })
Thrown(code, message) == [kind |-> "error", code |-> code, message |-> message, data |-> NoRow]

\* The handler ran off the end of its catch block: the mutation resolves to
\* undefined, neither an envelope nor an error.
Undefined == [kind |-> "undefined", code |-> "", message |-> "", data |-> NoRow]

KnownRequestError(code) == [type |-> "PrismaClientKnownRequestError", code |-> code, message |-> ""]

TRPCError(code, message) == [type |-> "TRPCError", code |-> code, message |-> message]

\* Any other exception (a PrismaClientValidationError, a connection failure).
OtherError(type) == [type |-> type, code |-> "", message |-> ""]

\* The catch block shared by the four mutations.
Caught(error) ==
  IF error.type = "PrismaClientKnownRequestError" /\ error.code = "P2002"
  THEN Thrown("CONFLICT", "userAlreadyExists")
  ELSE IF error.type = "ZodError"
  THEN Thrown("BAD_REQUEST", "invalidItemId")
  ELSE IF error.type = "TRPCError"
  THEN IF error.code = "UNAUTHORIZED"
       THEN Thrown("UNAUTHORIZED", "unauthorized")
       ELSE Thrown("INTERNAL_SERVER_ERROR", error.message)
  ELSE Undefined

\* A call that was not issued yet.  Besides the procedure op, its input in,
\* its position pc and its result, a call records what the properties below
\* speak of: pre, the table when it was issued; alone, whether no other call
\* was in flight during it; and of its latest step, the position at it was
\* taken from, the table seen before it and the table left after it.
Idle ==
  [op |-> "none", pc |-> "idle", in |-> <<>>, result |-> NoResult,
   pre |-> <<>>, alone |-> TRUE, at |-> "idle", seen |-> <<>>, left |-> <<>>]

InFlight(q) == calls[q].pc \notin {"idle", "done"}

\* Call p is issued with input in and reaches pc with result r (pc is "done"
\* when the input schema rejects the input).  pre is the table as the call
\* found it, alone whether no other call is in flight; a call that was in
\* flight is no longer alone.
Issue(p, op, in, pc, r) ==
  /\ calls[p].pc = "idle"
  /\ \A q \in Procs : q < p => calls[q].pc # "idle"
  /\ calls' = [q \in Procs |->
       IF q = p
       THEN [Idle EXCEPT !.op = op, !.pc = pc, !.in = in, !.result = r,
                         !.pre = users,
                         !.alone = \A o \in Procs \ {p} : ~InFlight(o)]
       ELSE IF InFlight(q) /\ pc # "done"
            THEN [calls[q] EXCEPT !.alone = FALSE]
            ELSE calls[q]]
  /\ UNCHANGED users

\* Call p has taken a step of the store that leaves it at pc with result r.
Moved(p, pc, r) ==
  calls' = [calls EXCEPT ![p].pc = pc, ![p].result = r, ![p].at = calls[p].pc,
                         ![p].seen = users, ![p].left = users']

\* Call p goes on to pc.
Goto(p, pc) == Moved(p, pc, NoResult)

\* Call p ends with result r.
Finish(p, r) == Moved(p, "done", r)

\* ------------------------------------------------------ persistence calls

\* Outcome of one call of the store: it threw error, or it left table and
\* returned row.
Threw(error) == [threw |-> TRUE, error |-> error, table |-> users, row |-> NoRow]

Returned(table, row) ==
  [threw |-> FALSE, error |-> OtherError(""), table |-> table, row |-> row]

\* prisma.user.create({ data })
PrismaCreate(data) ==
  IF UniqueConstraintViolation(data)
  THEN Threw(KnownRequestError("P2002"))
  ELSE Returned(Append(users, NewRow(data)), NewRow(data))

\* Mutant of PrismaIncrement: the amount overwrites the coins.
PrismaOverwrite(field, value, increment) ==
  LET i == findUnique(field, value)
      table == [users EXCEPT ![i].coins = increment]
  IN IF i = 0
     THEN Threw(KnownRequestError("P2025"))
     ELSE Returned(table, table[i])

\* prisma.user.update({ where: { [field]: value }, data: { coins: { increment } } });
\* a decrement is an increment of the negated amount.
PrismaIncrement(field, value, increment) ==
  LET i == findUnique(field, value)
      table == [users EXCEPT ![i].coins = @ + increment]
  IN IF i = 0
     THEN Threw(KnownRequestError("P2025"))
     ELSE Returned(table, table[i])

\* Mutant of PrismaUpsert: the update branch also rewrites the row's thumbnail.
PrismaUpsertRefreshing(field, value, increment, data) ==
  LET i == findUnique(field, value)
      table == [users EXCEPT ![i].coins = @ + increment, ![i].thumbnail = data.thumbnail]
  IN IF i # 0
     THEN Returned(table, table[i])
     ELSE PrismaCreate(data)

\* prisma.user.upsert({ where, update: { coins: { increment } }, create: data })
PrismaUpsert(field, value, increment, data) ==
  IF findUnique(field, value) # 0
  THEN PrismaIncrement(field, value, increment)
  ELSE PrismaCreate(data)

InsufficientBalance == TRPCError("INTERNAL_SERVER_ERROR", "insufficientBalance")

\* ---------------------------------------------------------------- create

\* coins: z.number().positive().default(0).optional()
CreateInputValid(in) == in.hasCoins => in.coins > 0

CallCreate(p) ==
  \E in \in CreateInputs :
    IF CreateInputValid(in)
    THEN Issue(p, "create", in, "create.create", NoResult)
    ELSE Issue(p, "create", in, "done", Thrown("BAD_REQUEST", "zod"))

\* data: { ...input } as far as its keys are columns of User: an absent coins
\* leaves the column its default 0.  The keys githubUsername and githubUserId
\* are not the columns githubUserName and githubId the other procedures write.
CreateData(in) ==
  [NoColumns EXCEPT !.name = in.name,
                    !.email = in.email,
                    !.discordId = in.discordId,
                    !.discordUserName = in.discordUserName,
                    !.discordDiscriminator = in.discordDiscriminator,
                    !.thumbnail = in.thumbnail,
                    !.coins = IF in.hasCoins THEN in.coins ELSE 0]

\* The input carries a key that is no column of the User table as the other
\* procedures use it.
HasGithubKeys(in) == in.githubUsername # Null \/ in.githubUserId # Null

\* What prisma.user.create({ data: { ...input } }) can do.  The User model is
\* not part of these sources: a key it does not know makes the client throw a
\* validation error before any query; were the key a further column of the
\* model, the row would be stored, its githubId NULL either way.
CreateOutcomes(in) ==
  {PrismaCreate(CreateData(in))} \cup
  (IF HasGithubKeys(in)
   THEN {Threw(OtherError("PrismaClientValidationError"))}
   ELSE {})

CreateCreate(p) ==
  /\ calls[p].pc = "create.create"
  /\ \E out \in CreateOutcomes(calls[p].in) :
       /\ users' = out.table
       /\ Finish(p, IF out.threw THEN Caught(out.error) ELSE Success(out.row))

\* ------------------------------------------------------ sendCoinsByUserId

CallSendCoinsByUserId(p) ==
  \E user \in DiscordUsers, coins \in Amounts :
    Issue(p, "sendCoinsByUserId", [user |-> user, coins |-> coins],
          "send.upsert", NoResult)

SendUpsert(p) ==
  /\ calls[p].pc = "send.upsert"
  /\ LET in == calls[p].in
         out == PrismaUpsert("discordId", in.user.id, in.coins,
                             DiscordUserData(in.user, in.coins))
     IN /\ users' = out.table
        /\ Finish(p, IF out.threw THEN Caught(out.error) ELSE Success(out.row))

\* ---------------------------------------------------- sendCoinsByGithubId

CallSendCoinsByGithubId(p) ==
  \E user \in GithubUsers, coins \in CoinStrings :
    Issue(p, "sendCoinsByGithubId", [user |-> user, coins |-> coins],
          "github.upsert", NoResult)

\* A NaN amount is refused by the client before any query is sent.
GithubUpsert(p) ==
  /\ calls[p].pc = "github.upsert"
  /\ LET in == calls[p].in
         coins == parseInt(in.coins)
         out == IF coins.nan
                THEN Threw(OtherError("PrismaClientValidationError"))
                ELSE PrismaUpsert("githubId", in.user.id, coins.val,
                                  GithubUserData(in.user, coins.val))
     IN /\ users' = out.table
        /\ Finish(p, IF out.threw THEN Caught(out.error) ELSE Success(out.row))

\* ------------------------------------------------------- payCoinsByUserId

CallPayCoinsByUserId(p) ==
  \E sender \in Senders, receiver \in DiscordUsers, coins \in Amounts :
    Issue(p, "payCoinsByUserId",
          [sender |-> sender, receiver |-> receiver, coins |-> coins],
          "pay.findUnique", NoResult)

\* Mutant of Insufficient: only an empty balance is refused.
InsufficientOnlyEmpty(balance, coins) == balance <= 0

\* if (senderBalance.coins <= 0 || senderBalance.coins < input.coins)
Insufficient(balance, coins) == balance <= 0 \/ balance < coins

\* The read of the sender's balance and the two checks on it.
PayFindUnique(p) ==
  /\ calls[p].pc = "pay.findUnique"
  /\ UNCHANGED users
  /\ LET in == calls[p].in
         senderBalance == findUnique("discordId", in.sender.id)
     IN IF senderBalance = 0
        THEN Goto(p, "pay.create")
        ELSE IF Insufficient(users[senderBalance].coins, in.coins)
        THEN Finish(p, Caught(InsufficientBalance))
        ELSE Goto(p, "pay.update")

\* Mutant of SenderData: the new sender is given a coin.
SenderDataFunded(sender) == DiscordUserData(sender, 1)

\* The row data of a sender the table does not hold: coins: 0.
SenderData(sender) == DiscordUserData(sender, 0)

\* The sender had no row: it is created with no coins and the call fails.
PayCreate(p) ==
  /\ calls[p].pc = "pay.create"
  /\ LET out == PrismaCreate(SenderData(calls[p].in.sender))
     IN /\ users' = out.table
        /\ Finish(p, Caught(IF out.threw THEN out.error ELSE InsufficientBalance))

\* Mutant of Decrement: the update takes nothing from the sender.
DecrementNothing(coins) == 0

\* Amount the update takes from the sender: { coins: { decrement: input.coins } }
Decrement(coins) == coins

PayUpdate(p) ==
  /\ calls[p].pc = "pay.update"
  /\ LET in == calls[p].in
         out == PrismaIncrement("discordId", in.sender.id, 0 - Decrement(in.coins))
     IN /\ users' = out.table
        /\ IF out.threw
           THEN Finish(p, Caught(out.error))
           ELSE Goto(p, "pay.upsert")

\* Mutant of ReceiverData: the new receiver is created without the amount.
ReceiverDataNoCoins(receiver, coins) == DiscordUserData(receiver, 0)

\* The row data of a receiver the table does not hold: coins: input.coins.
ReceiverData(receiver, coins) == DiscordUserData(receiver, coins)

PayUpsert(p) ==
  /\ calls[p].pc = "pay.upsert"
  /\ LET in == calls[p].in
         out == PrismaUpsert("discordId", in.receiver.id, in.coins,
                             ReceiverData(in.receiver, in.coins))
     IN /\ users' = out.table
        /\ Finish(p, IF out.threw THEN Caught(out.error) ELSE Success(out.row))

\* ------------------------------------------------------------- the queries

\* What a query resolves to: the row found, NoRow standing for null.
Found(row) == [kind |-> "row", code |-> "", message |-> "", data |-> row]

\* What getAll resolves to: all rows, which the call keeps as the table its
\* step has seen.
FoundAll == [kind |-> "rows", code |-> "", message |-> "", data |-> NoRow]

\* The row of users at index i, null when i is 0.
RowAt(i) == IF i = 0 THEN NoRow ELSE users[i]

LookupEmails == {Octo.email}

CallGetByDiscordId(p) ==
  \E user \in DiscordUsers :
    Issue(p, "getByDiscordId", [discordId |-> user.id], "get.findUnique", NoResult)

CallGetByEmail(p) ==
  \E email \in LookupEmails :
    Issue(p, "getByEmail", [email |-> email], "get.findUnique", NoResult)

CallGetAll(p) == Issue(p, "getAll", <<>>, "get.findMany", NoResult)

\* prisma.user.findUnique of getByDiscordId and getByEmail.
GetFindUnique(p) ==
  /\ calls[p].pc = "get.findUnique"
  /\ UNCHANGED users
  /\ Finish(p, IF calls[p].op = "getByDiscordId"
               THEN Found(RowAt(findUnique("discordId", calls[p].in.discordId)))
               ELSE Found(RowAt(findUnique("email", calls[p].in.email))))

\* prisma.user.findMany of getAll.
GetFindMany(p) ==
  /\ calls[p].pc = "get.findMany"
  /\ UNCHANGED users
  /\ Finish(p, FoundAll)

\* ----------------------------------------------------------------- sign-in

\* createId(): an id no earlier call was given.
createId(p) == <<"cuid", NatToStr(p)>>

\* The user DiscordProvider.profile returns to NextAuth for a Discord profile.
ProfileUser(profile, id) ==
  [id                   |-> id,
   name                 |-> profile.username,
   email                |-> profile.email,
   discordId            |-> profile.id,
   discordUserName      |-> profile.username,
   discordDiscriminator |-> profile.discriminator,
   thumbnail            |-> profileImageUrl(profile)]

\* What Discord sends as a discriminator: a string of digits.  number is its
\* value, told apart from what the code parses out of text.
Discriminators ==
  {[text |-> <<"0">>, number |-> 0],
   [text |-> <<"0", "0", "0", "8">>, number |-> 8],
   [text |-> <<"1", "2", "3", "4">>, number |-> 1234],
   [text |-> <<"7">>, number |-> 7]}

\* What Discord sends as an avatar: null, a hash, the hash of an animation.
AvatarHashes == {Null, <<"a", "_", "abc123">>, <<"a", "b", "_", "9">>}

\* The Discord accounts that sign in.
DiscordAccounts ==
  {[id |-> <<"42">>, username |-> <<"alice">>, email |-> <<"alice@example.org">>],
   [id |-> <<"43">>, username |-> <<"bob">>, email |-> Octo.email]}

DiscordProfiles ==
  {[id |-> a.id, username |-> a.username, email |-> a.email,
    avatar |-> h, discriminator |-> d.text] :
      a \in DiscordAccounts, h \in AvatarHashes, d \in Discriminators}

\* The profiles signing in among the calls of the router.
FewProfiles ==
  {q \in DiscordProfiles :
     \/ q.avatar = Null /\ q.discriminator = <<"7">>
     \/ q.avatar = <<"a", "_", "abc123">> /\ q.discriminator = <<"0">>}

\* What the signIn callback resolves to.
SignedIn(ok) ==
  [kind |-> "signIn", code |-> IF ok THEN "true" ELSE "false", message |-> "",
   data |-> NoRow]

\* The OAuth flow of a profile: profile() is applied, then the signIn
\* callback starts; linked tells whether the Account table holds the link.
CallSignIn(p, profiles) ==
  \E profile \in profiles, linked \in BOOLEAN :
    Issue(p, "signIn",
          [profile |-> profile, linked |-> linked,
           user |-> ProfileUser(profile, createId(p))],
          "signIn.findAccount", NoResult)

\* prisma.account.findUnique: a linked account signs in at once.
SignInFindAccount(p) ==
  /\ calls[p].pc = "signIn.findAccount"
  /\ UNCHANGED users
  /\ IF calls[p].in.linked
     THEN Finish(p, SignedIn(TRUE))
     ELSE Goto(p, "signIn.findUser")

\* prisma.user.findUnique({ where: { discordUserName: user.name } })
SignInFindUser(p) ==
  /\ calls[p].pc = "signIn.findUser"
  /\ UNCHANGED users
  /\ IF findUnique("discordUserName", calls[p].in.user.name) # 0
     THEN Goto(p, "signIn.update")
     ELSE Finish(p, SignedIn(TRUE))

\* Mutant of LinkedRow: the row is stored anew, under the user's id.
RelinkedRow(row, user) ==
  [row EXCEPT !.id = Len(users) + 1, !.discordId = user.id, !.email = user.email]

\* data: { discordId: user?.id, email: user?.email } written to row.
LinkedRow(row, user) == [row EXCEPT !.discordId = user.id, !.email = user.email]

\* prisma.user.update({ where: { discordUserName }, data })
PrismaLink(discordUserName, user) ==
  LET i == findUnique("discordUserName", discordUserName)
      row == LinkedRow(users[i], user)
  IN IF i = 0
     THEN Threw(KnownRequestError("P2025"))
     ELSE IF \E j \in DOMAIN users \ {i} : \E f \in {"discordId", "email"} :
               row[f] # Null /\ users[j][f] = row[f]
     THEN Threw(KnownRequestError("P2002"))
     ELSE Returned([users EXCEPT ![i] = row], row)

\* What the rejected callback leaves: the error of the store, unclassified.
Rejected(error) == [kind |-> "rejected", code |-> error.code, message |-> "", data |-> NoRow]

\* The user row found by name is given the id and the email of the user.
SignInUpdate(p) ==
  /\ calls[p].pc = "signIn.update"
  /\ LET out == PrismaLink(calls[p].in.user.discordUserName, calls[p].in.user)
     IN /\ users' = out.table
        /\ IF out.threw
           THEN Finish(p, Rejected(out.error))
           ELSE Goto(p, "signIn.createAccount")

\* prisma.account.create, then return true.
SignInCreateAccount(p) ==
  /\ calls[p].pc = "signIn.createAccount"
  /\ UNCHANGED users
  /\ Finish(p, SignedIn(TRUE))

SignInSteps(p) ==
  \/ SignInFindAccount(p)
  \/ SignInFindUser(p)
  \/ SignInUpdate(p)
  \/ SignInCreateAccount(p)

\* ------------------------------------------------- the give-coins command

\* JavaScript x < n for x a number or NaN: no comparison with NaN is true.
LessThan(x, n) == ~x.nan /\ x.val < n

\* What the command tells the member with editReply.
Replied(message) == [kind |-> "reply", code |-> message, message |-> "", data |-> NoRow]

\* Values of the string option coins.
CoinOptions == {<<"1", "5">>, <<"1">>, <<"0">>, <<"-", "1">>, <<"a", "b", "c">>}

\* /give-coins: admin tells whether the member's permissions hold the admin
\* role.  The command replies and returns, or sends the mutation; amount is
\* parseInt(coins), coins the number the mutation is sent when amount is one.
CallGiveCoins(p) ==
  \E admin \in BOOLEAN, user \in DiscordUsers, option \in CoinOptions :
    LET in == [admin |-> admin, user |-> user, option |-> option,
               amount |-> parseInt(option), coins |-> parseInt(option).val]
    IN IF ~admin
       THEN Issue(p, "giveCoins", in, "done", Replied("notAllowed"))
       ELSE IF LessThan(parseInt(option), 1)
       THEN Issue(p, "giveCoins", in, "done", Replied("invalidAmount"))
       ELSE Issue(p, "giveCoins", in, "give.mutate", NoResult)

\* api.user.sendCoinsByUserId.mutate reaches the router: coins: z.number()
\* refuses NaN, and the command replies with the error's message; any number
\* goes on to the procedure.
GiveCoinsMutate(p) ==
  /\ calls[p].pc = "give.mutate"
  /\ UNCHANGED users
  /\ IF calls[p].in.amount.nan
     THEN Finish(p, Thrown("BAD_REQUEST", "zod"))
     ELSE Goto(p, "send.upsert")

\* ------------------------------------------------- failures of the store

\* What a call of the store can throw besides what the data decides: a
\* unique-constraint violation lost to a concurrent writer, another known
\* request error, a connection failure, any other exception.
StoreFailures ==
  {KnownRequestError("P2002"), KnownRequestError("P2025"),
   OtherError("PrismaClientInitializationError"), OtherError("Error")}

\* The pending call of the store of p throws before it wrote anything.
StoreFails(p) ==
  /\ calls[p].pc \in DbPcs
  /\ UNCHANGED users
  /\ \E error \in StoreFailures : Finish(p, Caught(error))

\* ----------------------------------------------------------- specification

\* The tables the calls may find: empty, or rows as the first credit of a
\* Discord user has left them.
SeedTables ==
  {<<>>} \cup
  {<<Row(1, DiscordUserData(AliceBefore, c))>> : c \in 0..MaxSeedCoins} \cup
  {<<Row(1, DiscordUserData(AliceBefore, a)), Row(2, DiscordUserData(BobBefore, b))>> :
       a \in 0..MaxSeedCoins, b \in 0..MaxSeedCoins}

Init ==
  /\ users \in SeedTables
  /\ calls = [p \in Procs |-> Idle]

Step(p) ==
  \/ CallCreate(p)
  \/ CreateCreate(p)
  \/ CallSendCoinsByUserId(p)
  \/ SendUpsert(p)
  \/ CallSendCoinsByGithubId(p)
  \/ GithubUpsert(p)
  \/ CallPayCoinsByUserId(p)
  \/ PayFindUnique(p)
  \/ PayCreate(p)
  \/ PayUpdate(p)
  \/ PayUpsert(p)

Next == \E p \in Procs : Step(p)

Spec == Init /\ [][Next]_vars

NextFault == \E p \in Procs : Step(p) \/ StoreFails(p)

SpecFault == Init /\ [][NextFault]_vars


\* The give-coins command over the router.
NextCommand == \E p \in Procs : CallGiveCoins(p) \/ GiveCoinsMutate(p) \/ SendUpsert(p)

SpecCommand == Init /\ [][NextCommand]_vars

\* Sign-ins alone, of every profile.
NextSignIn == \E p \in Procs : CallSignIn(p, DiscordProfiles) \/ SignInSteps(p)

SpecSignIn == Init /\ [][NextSignIn]_vars

\* The mutations, the queries and the sign-in together.
NextCore ==
  \E p \in Procs :
    \/ Step(p)
    \/ CallGetByDiscordId(p)
    \/ CallGetByEmail(p)
    \/ CallGetAll(p)
    \/ GetFindUnique(p)
    \/ GetFindMany(p)
    \/ CallSignIn(p, FewProfiles)
    \/ SignInSteps(p)

SpecCore == Init /\ [][NextCore]_vars

\* ------------------------------------------------------------ properties

HasRow(table, discordId) == FindIn(table, "discordId", discordId) # 0

\* Coins of the row of discordId in table (the row must exist).
CoinsIn(table, discordId) == table[FindIn(table, "discordId", discordId)].coins

\* Number of rows of table whose discordId is discordId.
RowsOf(table, discordId) ==
  Cardinality({i \in DOMAIN table : table[i].discordId = discordId})

\* Another row of table holds the username of user as its discordUserName.
UsernameTaken(table, user) ==
  \E i \in DOMAIN table :
    table[i].discordUserName = user.username /\ table[i].discordId # user.id

\* after is before with one more row.
OneRowAdded(before, after) ==
  /\ Len(after) = Len(before) + 1
  /\ SubSeq(after, 1, Len(before)) = before

\* The row of discordId is the same, or as absent, in after as in before.
RowUntouched(before, after, discordId) ==
  /\ HasRow(after, discordId) = HasRow(before, discordId)
  /\ HasRow(before, discordId) =>
       after[FindIn(after, "discordId", discordId)]
         = before[FindIn(before, "discordId", discordId)]

Done(p) == calls[p].pc = "done"

IsPay(p) == calls[p].op = "payCoinsByUserId"

IsSend(p) == calls[p].op = "sendCoinsByUserId"

Succeeded(p) == Done(p) /\ calls[p].result.kind = "success"

\* The call failed with the router's insufficient-balance error.
FailedInsufficient(p) ==
  Done(p) /\ calls[p].result = Thrown("INTERNAL_SERVER_ERROR", "insufficientBalance")

\* The call failed with the router's unique-constraint error.
FailedConflict(p) ==
  Done(p) /\ calls[p].result = Thrown("CONFLICT", "userAlreadyExists")

\* C1: in every reachable state every User row has coins >= 0.
C1_CoinsNeverNegative == \A i \in DOMAIN users : users[i].coins >= 0

\* C2: two payCoinsByUserId calls of the same sender that overlap in time,
\* each for the sender's whole balance B >= 1 and to a receiver that has a
\* row, end with exactly one success, one insufficient-balance failure and a
\* sender balance of 0.
C2_ExactlyOneSucceeds ==
  \A p, q \in Procs :
    ( /\ p < q
      /\ Done(p) /\ Done(q) /\ IsPay(p) /\ IsPay(q)
      /\ ~calls[p].alone /\ ~calls[q].alone
      /\ calls[p].in.sender.id = calls[q].in.sender.id
      /\ HasRow(calls[p].pre, calls[p].in.sender.id)
      /\ CoinsIn(calls[p].pre, calls[p].in.sender.id) >= 1
      /\ calls[p].in.coins = CoinsIn(calls[p].pre, calls[p].in.sender.id)
      /\ calls[q].in.coins = calls[p].in.coins
      /\ \A c \in {p, q} :
           /\ calls[c].in.receiver.id # calls[c].in.sender.id
           /\ HasRow(calls[p].pre, calls[c].in.receiver.id)
      /\ \A o \in Procs \ {p, q} : calls[o].pc = "idle" )
    => /\ Succeeded(p) # Succeeded(q)
       /\ FailedInsufficient(p) # FailedInsufficient(q)
       /\ CoinsIn(users, calls[p].in.sender.id) = 0

\* C3: when a payCoinsByUserId call for an amount >= 1 that ran alone has
\* ended in its receiver upsert without success, it left the sender's coins
\* what they were before the call.
C3_DebitRollsBack ==
  \A p \in Procs :
    ( /\ IsPay(p) /\ calls[p].alone
      /\ calls[p].in.coins >= 1
      /\ Done(p) /\ calls[p].at = "pay.upsert"
      /\ calls[p].result.kind # "success" )
    => CoinsIn(calls[p].left, calls[p].in.sender.id)
         = CoinsIn(calls[p].pre, calls[p].in.sender.id)

\* C4: a sendCoinsByUserId or payCoinsByUserId call whose amount is <= 0
\* never reaches a call of the store, and ends with a BAD_REQUEST error.
C4_NonPositiveAmountRejected ==
  \A p \in Procs :
    ((IsSend(p) \/ IsPay(p)) /\ calls[p].in.coins <= 0)
    => /\ calls[p].pc \notin DbPcs
       /\ Done(p) => calls[p].result.code = "BAD_REQUEST"

\* What C5 takes for granted of a transfer p that ran alone: both rows
\* existed when it was called and the sender's balance covered an amount >= 1.
TransferCovered(p) ==
  LET in == calls[p].in
      pre == calls[p].pre
  IN /\ IsPay(p) /\ calls[p].alone
     /\ HasRow(pre, in.sender.id)
     /\ HasRow(pre, in.receiver.id)
     /\ in.coins >= 1
     /\ CoinsIn(pre, in.sender.id) >= in.coins

\* The call p ended with success and left the sender amount poorer and the
\* receiver amount richer than before the call, their sum unchanged.
TransferMoved(p) ==
  LET in == calls[p].in
      pre == calls[p].pre
      left == calls[p].left
      s == in.sender.id
      r == in.receiver.id
  IN /\ Succeeded(p)
     /\ CoinsIn(left, s) = CoinsIn(pre, s) - in.coins
     /\ CoinsIn(left, r) = CoinsIn(pre, r) + in.coins
     /\ CoinsIn(left, s) + CoinsIn(left, r) = CoinsIn(pre, s) + CoinsIn(pre, r)

\* C5 as stated: every covered transfer that ran alone ends with success and
\* has moved exactly amount from the sender to the receiver.
C5_TransferMovesAmount ==
  \A p \in Procs : (TransferCovered(p) /\ Done(p)) => TransferMoved(p)

\* C5 amended: the same, for a receiver other than the sender.
C5_TransferMovesAmountToOther ==
  \A p \in Procs :
    ( /\ TransferCovered(p) /\ Done(p)
      /\ calls[p].in.sender.id # calls[p].in.receiver.id )
    => TransferMoved(p)

C5_Witness ==
  \E p \in Procs :
    /\ TransferCovered(p) /\ Succeeded(p)
    /\ calls[p].in.sender.id # calls[p].in.receiver.id
    /\ CoinsIn(calls[p].pre, calls[p].in.sender.id) > calls[p].in.coins
    /\ CoinsIn(users, calls[p].in.sender.id)
         = CoinsIn(calls[p].pre, calls[p].in.sender.id) - calls[p].in.coins
    /\ CoinsIn(users, calls[p].in.receiver.id)
         = CoinsIn(calls[p].pre, calls[p].in.receiver.id) + calls[p].in.coins

\* C6: when the sender lookup of payCoinsByUserId has found a row whose coins
\* are less than the amount, that step has ended the call with the
\* insufficient-balance error and has left the whole table as it was.
C6_InsufficientChangesNothing ==
  \A p \in Procs :
    ( /\ IsPay(p)
      /\ calls[p].at = "pay.findUnique"
      /\ HasRow(calls[p].seen, calls[p].in.sender.id)
      /\ CoinsIn(calls[p].seen, calls[p].in.sender.id) < calls[p].in.coins )
    => /\ calls[p].left = calls[p].seen
       /\ FailedInsufficient(p)

C6_Witness ==
  \E p \in Procs :
    /\ IsPay(p) /\ calls[p].alone /\ FailedInsufficient(p)
    /\ HasRow(calls[p].pre, calls[p].in.sender.id)
    /\ CoinsIn(calls[p].pre, calls[p].in.sender.id) >= 1
    /\ CoinsIn(calls[p].pre, calls[p].in.sender.id) < calls[p].in.coins
    /\ \A q \in Procs \ {p} : calls[q].pc = "idle"
    /\ users = calls[p].pre

\* C7: every call that has ended returned a success envelope or raised a
\* classified error.
C7_EnvelopeOrError ==
  \A p \in Procs : Done(p) => calls[p].result.kind \in {"success", "error"}

\* The latest step of the sendCoinsByUserId call p was its upsert.
Credited(p) == IsSend(p) /\ calls[p].at = "send.upsert"

\* The credit of call p created the one row of its discordId, holding amount.
CreditCreated(p) ==
  LET in == calls[p].in
  IN /\ OneRowAdded(calls[p].seen, calls[p].left)
     /\ RowsOf(calls[p].left, in.user.id) = 1
     /\ CoinsIn(calls[p].left, in.user.id) = in.coins

\* The credit of call p added amount to the coins of the row of its discordId.
CreditIncremented(p) ==
  LET in == calls[p].in
  IN /\ Len(calls[p].left) = Len(calls[p].seen)
     /\ RowsOf(calls[p].left, in.user.id) = 1
     /\ CoinsIn(calls[p].left, in.user.id)
          = CoinsIn(calls[p].seen, in.user.id) + in.coins

\* Calls p and q are two successive credits, alike and alone and both ended
\* with success, the first of which found no row of the discordId.
TwoCredits(p, q) ==
  /\ p # q
  /\ Credited(p) /\ Succeeded(p) /\ calls[p].alone
  /\ Credited(q) /\ Succeeded(q) /\ calls[q].alone
  /\ calls[q].in = calls[p].in
  /\ ~HasRow(calls[p].pre, calls[p].in.user.id)
  /\ calls[q].pre = calls[p].left

\* C8 as stated: a credit of a discordId with no row creates exactly one row
\* with coins = amount, a credit of a discordId with a row increments it.
C8_CreditCreatesOrIncrements ==
  \A p \in Procs :
    Credited(p) =>
      IF HasRow(calls[p].seen, calls[p].in.user.id)
      THEN CreditIncremented(p)
      ELSE CreditCreated(p)

\* C8 amended: the same, unless the discordId has no row and another row holds
\* the username: then the credit fails with CONFLICT and creates nothing.  Two
\* successive alike credits from no row leave one row with coins = 2 * amount.
C8_CreditCreatesOrIncrementsUnlessTaken ==
  \A p \in Procs :
    /\ Credited(p) =>
         IF HasRow(calls[p].seen, calls[p].in.user.id)
         THEN CreditIncremented(p) /\ Succeeded(p)
         ELSE IF UsernameTaken(calls[p].seen, calls[p].in.user)
         THEN calls[p].left = calls[p].seen /\ FailedConflict(p)
         ELSE CreditCreated(p) /\ Succeeded(p)
    /\ \A q \in Procs :
         TwoCredits(p, q) =>
           /\ RowsOf(calls[q].left, calls[p].in.user.id) = 1
           /\ CoinsIn(calls[q].left, calls[p].in.user.id) = 2 * calls[p].in.coins

C8_Witness ==
  \E p, q \in Procs :
    /\ TwoCredits(p, q)
    /\ calls[p].in.coins >= 1
    /\ calls[p].result.data.coins = calls[p].in.coins
    /\ RowsOf(users, calls[p].in.user.id) = 1
    /\ CoinsIn(users, calls[p].in.user.id) = 2 * calls[p].in.coins

\* The latest step of the payCoinsByUserId call p was the create of its
\* sender, whose lookup had found no row.
SenderCreated(p) == IsPay(p) /\ calls[p].at = "pay.create"

\* The latest step of p appended one row, of discordId and with no coins.
CreatedWithNoCoins(p, discordId) ==
  /\ OneRowAdded(calls[p].seen, calls[p].left)
  /\ calls[p].left[Len(calls[p].left)].discordId = discordId
  /\ calls[p].left[Len(calls[p].left)].coins = 0

\* C9 as stated: a transfer whose sender has no row creates it with coins = 0
\* and fails with the insufficient-balance error; the receiver's row is
\* neither created nor changed.
C9_UnknownSenderCreated ==
  \A p \in Procs :
    SenderCreated(p) =>
      /\ CreatedWithNoCoins(p, calls[p].in.sender.id)
      /\ FailedInsufficient(p)
      /\ RowUntouched(calls[p].seen, calls[p].left, calls[p].in.receiver.id)

\* C9 amended: if a row holds the sender's username, or by now its discordId,
\* the create is refused: nothing is created and the call fails with CONFLICT;
\* otherwise as stated.  A receiver other than the sender is left untouched.
C9_UnknownSenderCreatedUnlessTaken ==
  \A p \in Procs :
    SenderCreated(p) =>
      LET s == calls[p].in.sender
          r == calls[p].in.receiver
      IN /\ IF UsernameTaken(calls[p].seen, s) \/ HasRow(calls[p].seen, s.id)
            THEN calls[p].left = calls[p].seen /\ FailedConflict(p)
            ELSE CreatedWithNoCoins(p, s.id) /\ FailedInsufficient(p)
         /\ r.id # s.id => RowUntouched(calls[p].seen, calls[p].left, r.id)
         /\ r.id # s.id => RowUntouched(calls[p].pre, calls[p].seen, r.id)
                             \/ ~calls[p].alone

C9_Witness ==
  \E p \in Procs :
    /\ SenderCreated(p) /\ FailedInsufficient(p) /\ calls[p].alone
    /\ calls[p].in.coins >= 1
    /\ calls[p].in.receiver.id # calls[p].in.sender.id
    /\ ~HasRow(calls[p].pre, calls[p].in.sender.id)
    /\ OneRowAdded(calls[p].pre, users)
    /\ users[Len(users)].discordId = calls[p].in.sender.id
    /\ users[Len(users)].coins = 0

\* C10: the update of a transfer takes amount from the sender; a receiver
\* upsert that succeeds for a discordId with no row appends the receiver's row
\* with coins = amount and returns that row as data.receiver; such a call that
\* ran alone has left the sender amount less than it held before the call.
C10_NewReceiverCreated ==
  \A p \in Procs :
    LET in == calls[p].in
        pre == calls[p].pre
        seen == calls[p].seen
        left == calls[p].left
    IN IsPay(p) =>
         /\ (calls[p].at = "pay.update" /\ calls[p].pc = "pay.upsert") =>
              CoinsIn(left, in.sender.id) = CoinsIn(seen, in.sender.id) - in.coins
         /\ ( /\ calls[p].at = "pay.upsert"
              /\ Succeeded(p)
              /\ ~HasRow(seen, in.receiver.id) ) =>
              /\ OneRowAdded(seen, left)
              /\ RowsOf(left, in.receiver.id) = 1
              /\ left[Len(left)].discordId = in.receiver.id
              /\ left[Len(left)].coins = in.coins
              /\ calls[p].result.data = left[Len(left)]
              /\ calls[p].alone =>
                   CoinsIn(left, in.sender.id) = CoinsIn(pre, in.sender.id) - in.coins

C10_Witness ==
  \E p \in Procs :
    LET in == calls[p].in
        pre == calls[p].pre
    IN /\ IsPay(p) /\ Succeeded(p) /\ calls[p].alone
       /\ in.coins >= 1
       /\ ~HasRow(pre, in.receiver.id)
       /\ CoinsIn(pre, in.sender.id) > in.coins
       /\ calls[p].result.data.discordId = in.receiver.id
       /\ calls[p].result.data.coins = in.coins
       /\ CoinsIn(users, in.receiver.id) = in.coins
       /\ CoinsIn(users, in.sender.id) = CoinsIn(pre, in.sender.id) - in.coins

IsCreate(p) == calls[p].op = "create"

\* A row of table holds the email, the discordId or the GitHub id of the
\* create input in.
IdentityHeld(table, in) ==
  \E i \in DOMAIN table :
    \/ in.email # Null /\ table[i].email = in.email
    \/ in.discordId # Null /\ table[i].discordId = in.discordId
    \/ in.githubUserId # Null /\ table[i].githubId = in.githubUserId

\* C11: the store call of create, for an email, discordId or GitHub id that a
\* row holds, has failed with CONFLICT and inserted nothing; for none of them
\* held it has inserted exactly one row, with coins 0 unless coins was given.
C11_CreateConflictsOrInserts ==
  \A p \in Procs :
    (IsCreate(p) /\ calls[p].at = "create.create") =>
      IF IdentityHeld(calls[p].seen, calls[p].in)
      THEN calls[p].left = calls[p].seen /\ FailedConflict(p)
      ELSE /\ OneRowAdded(calls[p].seen, calls[p].left)
           /\ calls[p].left[Len(calls[p].left)].coins
                = (IF calls[p].in.hasCoins THEN calls[p].in.coins ELSE 0)

\* C12: no two User rows share a non-null discordId, githubId or email.
C12_IdentifiersUnique ==
  \A i, j \in DOMAIN users :
    i # j => \A f \in RouterUniqueFields :
               users[i][f] = Null \/ users[i][f] # users[j][f]

\* Two overlapping first credits of one discordId have both ended and left
\* one row of it.
C12_Witness ==
  \E p, q \in Procs :
    /\ p < q /\ IsSend(p) /\ IsSend(q) /\ Done(p) /\ Done(q)
    /\ ~calls[p].alone /\ ~calls[q].alone
    /\ calls[q].in.user.id = calls[p].in.user.id
    /\ ~HasRow(calls[p].pre, calls[p].in.user.id)
    /\ ~HasRow(calls[q].pre, calls[p].in.user.id)
    /\ RowsOf(users, calls[p].in.user.id) = 1

IsGithub(p) == calls[p].op = "sendCoinsByGithubId"

\* The latest step of the sendCoinsByGithubId call p was its upsert, for coins
\* that parse to an integer.
GithubCredited(p) ==
  IsGithub(p) /\ calls[p].at = "github.upsert" /\ ~parseInt(calls[p].in.coins).nan

HasGithubRow(table, githubId) == FindIn(table, "githubId", githubId) # 0

\* The step of p appended a row of its githubId whose coins are the parsed
\* integer and whose thumbnail is the avatarUrl as supplied.
GithubCreated(p) ==
  LET in == calls[p].in
      left == calls[p].left
  IN /\ OneRowAdded(calls[p].seen, left)
     /\ left[Len(left)].githubId = in.user.id
     /\ left[Len(left)].coins = parseInt(in.coins).val
     /\ left[Len(left)].thumbnail = in.user.avatarUrl

\* The step of p added the parsed integer to the coins of the row of its
\* githubId and changed nothing else of the table.
GithubIncremented(p) ==
  LET in == calls[p].in
      seen == calls[p].seen
      i == FindIn(seen, "githubId", in.user.id)
  IN calls[p].left = [seen EXCEPT ![i].coins = @ + parseInt(in.coins).val]

\* C13 as stated: for an unknown githubId the upsert creates the row, for a
\* known one it increments the coins and leaves the thumbnail.
C13_GithubCreatesOrIncrements ==
  \A p \in Procs :
    GithubCredited(p) =>
      IF HasGithubRow(calls[p].seen, calls[p].in.user.id)
      THEN GithubIncremented(p)
      ELSE GithubCreated(p)

\* C13 amended: the same, unless the githubId is unknown and a row holds the
\* email: that row is not resolved, the call fails with CONFLICT and the table
\* is left as it was.
C13_GithubCreatesOrIncrementsUnlessTaken ==
  \A p \in Procs :
    GithubCredited(p) =>
      IF HasGithubRow(calls[p].seen, calls[p].in.user.id)
      THEN GithubIncremented(p) /\ Succeeded(p)
      ELSE IF FindIn(calls[p].seen, "email", calls[p].in.user.email) # 0
      THEN calls[p].left = calls[p].seen /\ FailedConflict(p)
      ELSE GithubCreated(p) /\ Succeeded(p)

\* A first credit of "15" has created the row, a second one that carried
\* another avatarUrl has raised its coins to 30 and left the thumbnail.
C13_Witness ==
  \E p, q \in Procs :
    /\ p # q /\ GithubCredited(p) /\ GithubCredited(q)
    /\ Succeeded(p) /\ Succeeded(q)
    /\ calls[p].in.coins = <<"1", "5">> /\ calls[q].in.coins = <<"1", "5">>
    /\ ~HasGithubRow(calls[p].seen, calls[p].in.user.id)
    /\ calls[q].seen = calls[p].left
    /\ calls[q].in.user.id = calls[p].in.user.id
    /\ calls[q].in.user.avatarUrl # calls[p].in.user.avatarUrl
    /\ calls[p].result.data.coins = 15
    /\ calls[q].result.data.coins = 30
    /\ calls[q].result.data.thumbnail = calls[p].in.user.avatarUrl
    /\ users[Len(users)] = calls[q].result.data

\* C17: when the decrement of a transfer of an amount >= 1 is written while
\* the sender's coins are below the amount, it changes nothing and the call
\* ends with the insufficient-balance error.
C17_DecrementConditional ==
  \A p \in Procs :
    ( /\ IsPay(p) /\ calls[p].at = "pay.update"
      /\ calls[p].in.coins >= 1
      /\ HasRow(calls[p].seen, calls[p].in.sender.id)
      /\ CoinsIn(calls[p].seen, calls[p].in.sender.id) < calls[p].in.coins )
    => /\ calls[p].left = calls[p].seen
       /\ FailedInsufficient(p)

\* Sum of the coins of all rows of table.
RECURSIVE SumCoins(_)
SumCoins(table) ==
  IF table = <<>> THEN 0 ELSE Head(table).coins + SumCoins(Tail(table))

\* The call p ended, or can still end, as a transfer that keeps the sum: it
\* is none whose receiver upsert failed after the decrement.
KeepsSum(p) ==
  IsPay(p) /\ Done(p) /\ (calls[p].at = "pay.upsert" => Succeeded(p))

\* C18: the decrement of a transfer lowers the sum of all coins by amount and
\* its successful receiver upsert raises it by amount again; a successful
\* transfer that ran alone has left the sum what it was before the call; and
\* when all calls were transfers and none failed in its receiver upsert, the
\* sum is what it was before the first of them, however they interleaved.
C18_SuccessKeepsSum ==
  /\ \A p \in Procs :
       IsPay(p) =>
         /\ (calls[p].at = "pay.update" /\ calls[p].pc = "pay.upsert") =>
              SumCoins(calls[p].left) = SumCoins(calls[p].seen) - calls[p].in.coins
         /\ (calls[p].at = "pay.upsert" /\ Succeeded(p)) =>
              SumCoins(calls[p].left) = SumCoins(calls[p].seen) + calls[p].in.coins
         /\ (Succeeded(p) /\ calls[p].alone) =>
              SumCoins(calls[p].left) = SumCoins(calls[p].pre)
  /\ (\A p \in Procs : KeepsSum(p)) => SumCoins(users) = SumCoins(calls[1].pre)

\* Two overlapping transfers of the sender's whole balance have both ended
\* with success, the second on a stale check: the sender is overdrawn, the
\* receiver was created, the sum is kept.
C18_Witness ==
  \E p, q \in Procs :
    /\ p # q /\ IsPay(p) /\ IsPay(q) /\ Succeeded(p) /\ Succeeded(q)
    /\ ~calls[p].alone /\ ~calls[q].alone
    /\ calls[p].in.coins >= 1 /\ calls[q].in.coins >= 1
    /\ calls[p].in.sender.id = calls[q].in.sender.id
    /\ calls[p].in.receiver.id # calls[p].in.sender.id
    /\ ~HasRow(calls[1].pre, calls[p].in.receiver.id)
    /\ CoinsIn(users, calls[p].in.sender.id) < 0
    /\ SumCoins(calls[1].pre) >= 1
    /\ SumCoins(users) = SumCoins(calls[1].pre)

\* The row of table that the latest step of call p addressed is row.
Addressed(p, row) ==
  LET in == calls[p].in
  IN \/ calls[p].at = "send.upsert" /\ row.discordId = in.user.id
     \/ calls[p].at = "github.upsert" /\ row.githubId = in.user.id
     \/ calls[p].at = "pay.update" /\ row.discordId = in.sender.id
     \/ calls[p].at = "pay.upsert" /\ row.discordId = in.receiver.id

\* The procedures that credit or transfer coins.
IsLedger(p) == IsSend(p) \/ IsGithub(p) \/ IsPay(p)

\* C19: a step of sendCoinsByUserId, sendCoinsByGithubId or payCoinsByUserId
\* has kept every row that existed, changing at most the coins of the row it
\* addressed: all other columns and all other rows are what they were.  A
\* call that ran alone has left every row but those of its participants as
\* it was before the call.
C19_OnlyCoinsOfAddressed ==
  \A p \in Procs :
    (IsLedger(p) /\ calls[p].at # "idle") =>
      LET seen == calls[p].seen
          left == calls[p].left
          pre == calls[p].pre
      IN /\ Len(left) >= Len(seen)
         /\ \A i \in DOMAIN seen :
              /\ [left[i] EXCEPT !.coins = seen[i].coins] = seen[i]
              /\ left[i].coins # seen[i].coins => Addressed(p, seen[i])
         /\ calls[p].alone =>
              \A i \in DOMAIN pre :
                \/ left[i] = pre[i]
                \/ /\ [left[i] EXCEPT !.coins = pre[i].coins] = pre[i]
                      /\ IF IsPay(p)
                         THEN pre[i].discordId
                                \in {calls[p].in.sender.id, calls[p].in.receiver.id}
                         ELSE IF IsSend(p)
                         THEN pre[i].discordId = calls[p].in.user.id
                         ELSE pre[i].githubId = calls[p].in.user.id

\* A credit that carried Bob's present username, avatar and discriminator
\* has raised the coins of his row, which keeps the name and thumbnail it was
\* stored with; the other row is as before.
C19_Witness ==
  \E p \in Procs :
    /\ IsSend(p) /\ Succeeded(p) /\ calls[p].alone
    /\ calls[p].in.user = Bob /\ calls[p].in.coins >= 1
    /\ Len(calls[p].pre) = 2 /\ Len(users) = 2
    /\ users[2].discordId = Bob.id
    /\ users[2].coins = calls[p].pre[2].coins + calls[p].in.coins
    /\ users[2].discordUserName = BobBefore.username
    /\ users[2].discordUserName # calls[p].in.user.username
    /\ users[2].thumbnail = setThumbnailUrl(BobBefore)
    /\ users[2].thumbnail # setThumbnailUrl(calls[p].in.user)
    /\ users[1] = calls[p].pre[1]

\* The transfer p names one discordId as sender and receiver.
SelfPay(p) == IsPay(p) /\ calls[p].in.sender.id = calls[p].in.receiver.id

\* C20: a transfer from a discordId to itself that ran alone, on a balance
\* >= amount >= 1, has ended with success and left the coins what they were
\* before the call; no transfer to oneself leaves a second row of the discordId.
C20_SelfPayKeepsCoins ==
  \A p \in Procs :
    SelfPay(p) =>
      LET s == calls[p].in.sender.id
          pre == calls[p].pre
      IN /\ RowsOf(users, s) <= 1
         /\ (calls[p].at = "pay.upsert" /\ Succeeded(p)) =>
              Len(calls[p].left) = Len(calls[p].seen)
         /\ ( /\ Done(p) /\ calls[p].alone
              /\ HasRow(pre, s)
              /\ calls[p].in.coins >= 1
              /\ CoinsIn(pre, s) >= calls[p].in.coins ) =>
              /\ Succeeded(p)
              /\ RowsOf(calls[p].left, s) = 1
              /\ CoinsIn(calls[p].left, s) = CoinsIn(pre, s)

C20_Witness ==
  \E p \in Procs :
    /\ SelfPay(p) /\ Succeeded(p) /\ calls[p].alone
    /\ calls[p].in.coins >= 1
    /\ HasRow(calls[p].pre, calls[p].in.sender.id)
    /\ calls[p].result.data.discordId = calls[p].in.sender.id
    /\ RowsOf(users, calls[p].in.sender.id) = 1
    /\ CoinsIn(users, calls[p].in.sender.id)
         = CoinsIn(calls[p].pre, calls[p].in.sender.id)

IsGiveCoins(p) == calls[p].op = "giveCoins"

\* The command p has sent the mutation sendCoinsByUserId.
LedgerCalled(p) ==
  \/ calls[p].pc \in {"give.mutate", "send.upsert"}
  \/ calls[p].at \in {"give.mutate", "send.upsert"}

\* The amount parsed from the coins option of command p is a number >= 1.
AmountPositive(p) == ~calls[p].in.amount.nan /\ calls[p].in.amount.val >= 1

\* C14: the give-coins command has sent sendCoinsByUserId only for an admin
\* and a parsed amount >= 1; for another member or another amount it has
\* ended with an error reply and without sending the mutation.
C14_GiveCoinsGuarded ==
  \A p \in Procs :
    IsGiveCoins(p) =>
      /\ LedgerCalled(p) => calls[p].in.admin /\ AmountPositive(p)
      /\ (~calls[p].in.admin \/ ~AmountPositive(p)) =>
           /\ Done(p)
           /\ calls[p].result \in {Replied("notAllowed"), Replied("invalidAmount")}

IsSignIn(p) == calls[p].op = "signIn"

\* The number a discriminator stands for.
DiscriminatorNumber(text) == (CHOOSE d \in Discriminators : d.text = text).number

\* The URL of default avatar k.
DefaultAvatarUrl(k) ==
  <<"https://cdn.discordapp.com/embed/avatars/", Digits[k + 1], ".png">>

\* The URL of the avatar hash of account id, with extension ext.
AccountAvatarUrl(id, hash, ext) ==
  <<"https://cdn.discordapp.com/avatars/">> \o id \o <<"/">> \o hash \o <<".", ext>>

\* C15: the thumbnail resolved for a profile is, with no avatar, the URL of
\* the default avatar whose index is the discriminator mod 5, an index in
\* 0..4; with an avatar, the account's avatar URL of id and hash, gif exactly
\* when the hash begins with "a_" and png otherwise.  Equal profiles resolve
\* to equal thumbnails.
C15_ThumbnailResolved ==
  \A p \in Procs :
    IsSignIn(p) =>
      LET profile == calls[p].in.profile
          url == calls[p].in.user.thumbnail
      IN /\ IF profile.avatar = Null
            THEN \E k \in 0..4 :
                   /\ k = DiscriminatorNumber(profile.discriminator) % 5
                   /\ url = DefaultAvatarUrl(k)
            ELSE IF profile.avatar[1] = "a" /\ profile.avatar[2] = "_"
            THEN url = AccountAvatarUrl(profile.id, profile.avatar, "gif")
            ELSE url = AccountAvatarUrl(profile.id, profile.avatar, "png")
         /\ \A q \in Procs :
              (IsSignIn(q) /\ calls[q].in.profile = profile) =>
                calls[q].in.user.thumbnail = url

\* A profile with no avatar and discriminator "7" has resolved to default
\* avatar 2, one of id "42" with avatar "a_abc123" to a URL ending in gif.
C15_Witness ==
  \E p, q \in Procs :
    /\ IsSignIn(p) /\ IsSignIn(q)
    /\ calls[p].in.profile.avatar = Null
    /\ calls[p].in.profile.discriminator = <<"7">>
    /\ calls[p].in.user.thumbnail = DefaultAvatarUrl(2)
    /\ calls[q].in.profile.avatar = <<"a", "_", "abc123">>
    /\ calls[q].in.profile.id = <<"42">>
    /\ calls[q].in.user.thumbnail
         = <<"https://cdn.discordapp.com/avatars/", "42", "/", "a", "_", "abc123", ".", "gif">>

IdsOf(table) == {table[i].id : i \in DOMAIN table}

\* C16: every step of every call has kept each row that existed, under its
\* id; the ids a call found, and those any of its steps left, are ids of the
\* table ever after.
C16_IdsOnlyGrow ==
  \A p \in Procs :
    calls[p].pc # "idle" =>
      /\ IdsOf(calls[p].pre) \subseteq IdsOf(users)
      /\ calls[p].at # "idle" =>
           /\ IdsOf(calls[p].left) \subseteq IdsOf(users)
           /\ \A i \in DOMAIN calls[p].seen :
                /\ i \in DOMAIN calls[p].left
                /\ calls[p].left[i].id = calls[p].seen[i].id

\* A sign-in has rewritten the discordId of a row, which keeps its id, and
\* another call has added a row.
C16_Witness ==
  \E p, q \in Procs :
    /\ IsSignIn(p) /\ Done(p) /\ calls[p].result = SignedIn(TRUE)
    /\ \E i \in DOMAIN calls[p].pre :
         /\ users[i].id = calls[p].pre[i].id
         /\ users[i].discordId = calls[p].in.user.id
         /\ calls[p].pre[i].discordId # calls[p].in.user.id
    /\ q # p /\ Done(q)
    /\ calls[q].op \in {"create", "sendCoinsByUserId", "sendCoinsByGithubId",
                         "payCoinsByUserId"}
    /\ OneRowAdded(calls[q].seen, calls[q].left)
    /\ IdsOf(calls[q].left) \subseteq IdsOf(users)

\* Calls p and q are two transfers from one sender discordId that overlapped
\* in time, both ended, neither having found a row of the sender when called.
ConcurrentUnknownSender(p, q) ==
  /\ p < q /\ IsPay(p) /\ IsPay(q) /\ Done(p) /\ Done(q)
  /\ ~calls[p].alone /\ ~calls[q].alone
  /\ calls[q].in.sender.id = calls[p].in.sender.id
  /\ ~HasRow(calls[p].pre, calls[p].in.sender.id)
  /\ ~HasRow(calls[q].pre, calls[p].in.sender.id)

\* Call p ended with one of the two raised errors.
RaisedInsufficientOrConflict(p) == FailedInsufficient(p) \/ FailedConflict(p)

\* C21 as stated: after two such transfers exactly one sender row exists,
\* with coins = 0, no receiver row was created or changed, and both calls
\* ended with the insufficient-balance or the CONFLICT error.
C21_OneSenderRowBothFail ==
  \A p, q \in Procs :
    ConcurrentUnknownSender(p, q) =>
      LET s == calls[p].in.sender.id
      IN /\ RowsOf(users, s) = 1
         /\ CoinsIn(users, s) = 0
         /\ \A c \in {p, q} :
              /\ RowUntouched(calls[p].pre, users, calls[c].in.receiver.id)
              /\ RaisedInsufficientOrConflict(c)

\* C21 amended: if another row holds the sender's username, no sender row is
\* created, the table is left as it was and both calls fail with CONFLICT;
\* otherwise as stated, for receivers other than the sender, and at most one
\* of the calls fails with CONFLICT.
C21_OneSenderRowBothFailUnlessTaken ==
  \A p, q \in Procs :
    ConcurrentUnknownSender(p, q) =>
      LET s == calls[p].in.sender.id
      IN IF UsernameTaken(calls[p].pre, calls[p].in.sender)
         THEN /\ users = calls[p].pre
              /\ FailedConflict(p) /\ FailedConflict(q)
         ELSE /\ RowsOf(users, s) = 1
              /\ CoinsIn(users, s) = 0
              /\ OneRowAdded(calls[p].pre, users)
              /\ FailedInsufficient(p) \/ FailedInsufficient(q)
              /\ \A c \in {p, q} :
                   /\ RaisedInsufficientOrConflict(c)
                   /\ calls[c].in.receiver.id # s =>
                        RowUntouched(calls[p].pre, users, calls[c].in.receiver.id)

\* Both lookups found no sender, one create stored the row with no coins and
\* its call raised insufficient balance, the other create lost the race and
\* its call raised CONFLICT; the receiver, who had no row, still has none.
C21_Witness ==
  \E p, q \in Procs :
    /\ ConcurrentUnknownSender(p, q)
    /\ SenderCreated(p) /\ SenderCreated(q)
    /\ FailedInsufficient(p) # FailedInsufficient(q)
    /\ FailedConflict(p) # FailedConflict(q)
    /\ calls[p].in.coins >= 1 /\ calls[q].in.coins >= 1
    /\ calls[p].in.receiver.id # calls[p].in.sender.id
    /\ calls[q].in.receiver.id # calls[p].in.sender.id
    /\ ~HasRow(users, calls[p].in.receiver.id)
    /\ ~HasRow(users, calls[q].in.receiver.id)
    /\ OneRowAdded(calls[p].pre, users)
    /\ RowsOf(users, calls[p].in.sender.id) = 1
    /\ CoinsIn(users, calls[p].in.sender.id) = 0

====
